---- MODULE Spec2Model ----
(***************************************************************************)
(* Model of zebrad's mempool VerifiedSet                                   *)
(* (zebrad/src/components/mempool/storage/verified_set.rs) and of          *)
(* zebra-network's AddressBookUpdater                                      *)
(* (zebra-network/src/address_book_updater.rs).                            *)
(*                                                                         *)
(* VerifiedSet: the state is the VerifiedSet struct (variable `set`, one   *)
(* record field per struct field), the process-wide metrics gauges that    *)
(* update_metrics writes (variable `gauges`), and the last public call     *)
(* with its return value (variable `last`).  Specification Spec; the       *)
(* owner's loop that enforces the cost limit is FairSpecOwner.             *)
(*                                                                         *)
(* AddressBookUpdater: the state is the senders of the mpsc channel, the   *)
(* events queued in it, the worker's position and the event it holds, the  *)
(* address book mutex and the changes applied to the address book, and the *)
(* result of the worker's join handle.  Specification SpecUpdater; the     *)
(* address book mutex is never poisoned and the progress-bar feature is    *)
(* off.                                                                    *)
(*                                                                         *)
(* CachedFfiTransaction (zebra-script/src/lib.rs): the state is the        *)
(* verifier (its transaction and all_previous_outputs), the last call with *)
(* its result, and one earlier call.  Specification SpecScript.            *)
(***************************************************************************)
EXTENDS Integers, Sequences, FiniteSets, TLC

VARIABLES set, gauges, last

VARIABLES senders, channel, entered, worker_pc, event, mutex, address_book, handle

\* The variables of the AddressBookUpdater.
uvars == <<senders, channel, entered, worker_pc, event, mutex, address_book, handle>>

\* The variables of the VerifiedSet.
svars == <<set, gauges, last>>

VARIABLES verifier, call, earlier

\* The variables of the script verifier.
vvars == <<verifier, call, earlier>>

vars == <<set, gauges, last, senders, channel, entered, worker_pc, event, mutex,
          address_book, handle, verifier, call, earlier>>

----------------------------------------------------------------------------
(* Transactions offered to the set.                                        *)

\* Number of transactions of TxTable that callers may offer to the set.
NumTx == 6

MEMPOOL_TRANSACTION_COST_THRESHOLD == 4000

LOW_FEE_PENALTY == 16000

CONVENTIONAL_FEE == 1000

\* transparent::OutPoint { hash, index }
OutPoint(h, i) == [hash |-> h, index |-> i]

\* UnminedTxId: the mined id (transaction hash) and the authorizing data
\* digest (0 for a Legacy id, which has none).
TxId(m, a) == [mined |-> m, auth |-> a]

\* UnminedTxId::mined_id
mined_id(id) == id.mined

\* VerifiedUnminedTx values.  Every entry has passed verification, so it
\* spends at least one outpoint or reveals at least one nullifier.  Hashes
\* 100 and up name transactions of the chain, hashes below 100 are the mined
\* ids of the entries themselves.  fee_weight_ratio is held in hundredths.
\*   1 A   spends (100,0)
\*   2 B   spends (100,1): disjoint from A
\*   3 C   spends (100,0): transparent conflict with A; Sprout 1, 2
\*   4 D   reveals Sapling nullifier 1
\*   5 E   shares only Sapling 1 with D, only Sprout 2 with C, only
\*         Orchard 1 with G
\*   6 G   spends (1,0), an output created by A; Orchard 1
\*   7 F   reveals Orchard 1 and Sprout 1, 2, spends nothing transparent
\*   8 A2  the effects of A under another authorizing data digest
TxTable ==
  << [id |-> TxId(1, 0), size |-> 200, miner_fee |-> 1000,
      spent_outpoints |-> {OutPoint(100, 0)},
      sprout_nullifiers |-> {}, sapling_nullifiers |-> {}, orchard_nullifiers |-> {},
      outputs |-> <<"a0", "a1">>,
      conventional_actions |-> 2, unpaid_actions |-> 0, fee_weight_ratio |-> 100],
     [id |-> TxId(2, 0), size |-> 300, miner_fee |-> 500,
      spent_outpoints |-> {OutPoint(100, 1)},
      sprout_nullifiers |-> {}, sapling_nullifiers |-> {}, orchard_nullifiers |-> {},
      outputs |-> <<"b0">>,
      conventional_actions |-> 2, unpaid_actions |-> 1, fee_weight_ratio |-> 50],
     [id |-> TxId(3, 0), size |-> 5000, miner_fee |-> 2500,
      spent_outpoints |-> {OutPoint(100, 0), OutPoint(102, 0)},
      sprout_nullifiers |-> {1, 2}, sapling_nullifiers |-> {}, orchard_nullifiers |-> {},
      outputs |-> <<"c0">>,
      conventional_actions |-> 4, unpaid_actions |-> 0, fee_weight_ratio |-> 250],
     [id |-> TxId(4, 0), size |-> 2000, miner_fee |-> 100,
      spent_outpoints |-> {OutPoint(101, 0)},
      sprout_nullifiers |-> {}, sapling_nullifiers |-> {1}, orchard_nullifiers |-> {},
      outputs |-> <<"d0">>,
      conventional_actions |-> 3, unpaid_actions |-> 3, fee_weight_ratio |-> 10],
     [id |-> TxId(5, 1), size |-> 4500, miner_fee |-> 4000,
      spent_outpoints |-> {OutPoint(101, 1)},
      sprout_nullifiers |-> {2}, sapling_nullifiers |-> {1, 2}, orchard_nullifiers |-> {1},
      outputs |-> << >>,
      conventional_actions |-> 5, unpaid_actions |-> 0, fee_weight_ratio |-> 400],
     [id |-> TxId(6, 1), size |-> 250, miner_fee |-> 700,
      spent_outpoints |-> {OutPoint(1, 0)},
      sprout_nullifiers |-> {}, sapling_nullifiers |-> {}, orchard_nullifiers |-> {1},
      outputs |-> <<"g0">>,
      conventional_actions |-> 3, unpaid_actions |-> 1, fee_weight_ratio |-> 70],
     [id |-> TxId(7, 1), size |-> 9000, miner_fee |-> 900,
      spent_outpoints |-> {},
      sprout_nullifiers |-> {1, 2}, sapling_nullifiers |-> {}, orchard_nullifiers |-> {1},
      outputs |-> << >>,
      conventional_actions |-> 4, unpaid_actions |-> 1, fee_weight_ratio |-> 90],
     [id |-> TxId(1, 1), size |-> 200, miner_fee |-> 1000,
      spent_outpoints |-> {OutPoint(100, 0)},
      sprout_nullifiers |-> {}, sapling_nullifiers |-> {}, orchard_nullifiers |-> {},
      outputs |-> <<"a0", "a1">>,
      conventional_actions |-> 2, unpaid_actions |-> 0, fee_weight_ratio |-> 100] >>

Txs == {TxTable[i] : i \in 1..NumTx}

TxIds == {t.id : t \in Txs}

Max(a, b) == IF a >= b THEN a ELSE b

\* VerifiedUnminedTx::cost
cost(tx) == Max(tx.size, MEMPOOL_TRANSACTION_COST_THRESHOLD)

RECURSIVE Sum(_, _)
\* The sum of f[x] over the x of S.
Sum(f, S) ==
  IF S = {} THEN 0
  ELSE LET x == CHOOSE y \in S : TRUE IN f[x] + Sum(f, S \ {x})

----------------------------------------------------------------------------
(* VerifiedSet                                                             *)

\* VerifiedSet::default
Default ==
  [ transactions |-> [k \in {} |-> 0],
    dependencies |-> [k \in {} |-> 0],
    dependants |-> [k \in {} |-> 0],
    created_outputs |-> [k \in {} |-> 0],
    transactions_serialized_size |-> 0,
    total_cost |-> 0,
    spent_outpoints |-> {},
    sprout_nullifiers |-> {},
    sapling_nullifiers |-> {},
    orchard_nullifiers |-> {} ]

\* The gauges before the first emission: none has a value.
NoGauges == [k \in {} |-> 0]

transactions(s) == s.transactions

transaction_count(s) == Cardinality(DOMAIN s.transactions)

total_cost(s) == s.total_cost

total_serialized_size(s) == s.transactions_serialized_size

contains(s, id) == id \in DOMAIN s.transactions

\* HashMap::insert: a new key is added, a present key gets the new value.
MapInsert(m, k, v) == [x \in DOMAIN m \cup {k} |-> IF x = k THEN v ELSE m[x]]

\* HashMap::remove leaving the entry in the map.
MapRemove_keeping_entry(m, k) == m

\* HashMap::remove
MapRemove(m, k) == [x \in DOMAIN m \ {k} |-> m[x]]

has_conflicts(index, list) == \E item \in list : item \in index

\* has_spend_conflicts with one index for the three nullifier families.
has_spend_conflicts_merging_families(s, tx) ==
  \/ has_conflicts(s.spent_outpoints, tx.spent_outpoints)
  \/ has_conflicts(s.sprout_nullifiers \cup s.sapling_nullifiers \cup s.orchard_nullifiers,
                   tx.sprout_nullifiers \cup tx.sapling_nullifiers \cup tx.orchard_nullifiers)

\* has_spend_conflicts without the spent-outpoints index.
has_spend_conflicts_without_outpoints(s, tx) ==
  \/ has_conflicts(s.sprout_nullifiers, tx.sprout_nullifiers)
  \/ has_conflicts(s.sapling_nullifiers, tx.sapling_nullifiers)
  \/ has_conflicts(s.orchard_nullifiers, tx.orchard_nullifiers)

\* has_spend_conflicts without the Sapling index.
has_spend_conflicts_without_sapling(s, tx) ==
  \/ has_conflicts(s.spent_outpoints, tx.spent_outpoints)
  \/ has_conflicts(s.sprout_nullifiers, tx.sprout_nullifiers)
  \/ has_conflicts(s.orchard_nullifiers, tx.orchard_nullifiers)

has_spend_conflicts(s, tx) ==
  \/ has_conflicts(s.spent_outpoints, tx.spent_outpoints)
  \/ has_conflicts(s.sprout_nullifiers, tx.sprout_nullifiers)
  \/ has_conflicts(s.sapling_nullifiers, tx.sapling_nullifiers)
  \/ has_conflicts(s.orchard_nullifiers, tx.orchard_nullifiers)

\* VerifiedUnminedTx::eviction_weight
eviction_weight(tx) ==
  cost(tx) + (IF tx.miner_fee < CONVENTIONAL_FEE THEN LOW_FEE_PENALTY ELSE 0)

\* The outpoints of the outputs tx creates: (mined id, index) for each
\* index of tx.outputs(), indices counted from 0.
OutPointsOf(tx) == {OutPoint(mined_id(tx.id), i - 1) : i \in 1..Len(tx.outputs)}

\* cache_outputs_from assigning created_outputs instead of adding to it.
cache_outputs_from_replacing_outputs(s, tx_id, tx) ==
  [s EXCEPT
     !.created_outputs =
        [o \in {OutPoint(mined_id(tx_id), i - 1) : i \in 1..Len(tx.outputs)} |->
           tx.outputs[o.index + 1]],
     !.spent_outpoints = @ \cup tx.spent_outpoints,
     !.sprout_nullifiers = @ \cup tx.sprout_nullifiers,
     !.sapling_nullifiers = @ \cup tx.sapling_nullifiers,
     !.orchard_nullifiers = @ \cup tx.orchard_nullifiers]

\* cache_outputs_from without the Orchard nullifiers.
cache_outputs_from_without_orchard(s, tx_id, tx) ==
  [s EXCEPT
     !.created_outputs =
        [o \in DOMAIN s.created_outputs
               \cup {OutPoint(mined_id(tx_id), i - 1) : i \in 1..Len(tx.outputs)} |->
           IF o.hash = mined_id(tx_id) /\ o.index + 1 \in 1..Len(tx.outputs)
             THEN tx.outputs[o.index + 1]
             ELSE s.created_outputs[o]],
     !.spent_outpoints = @ \cup tx.spent_outpoints,
     !.sprout_nullifiers = @ \cup tx.sprout_nullifiers,
     !.sapling_nullifiers = @ \cup tx.sapling_nullifiers]

\* cache_outputs_from without the Sapling nullifiers.
cache_outputs_from_without_sapling(s, tx_id, tx) ==
  [s EXCEPT
     !.created_outputs =
        [o \in DOMAIN s.created_outputs
               \cup {OutPoint(mined_id(tx_id), i - 1) : i \in 1..Len(tx.outputs)} |->
           IF o.hash = mined_id(tx_id) /\ o.index + 1 \in 1..Len(tx.outputs)
             THEN tx.outputs[o.index + 1]
             ELSE s.created_outputs[o]],
     !.spent_outpoints = @ \cup tx.spent_outpoints,
     !.sprout_nullifiers = @ \cup tx.sprout_nullifiers,
     !.orchard_nullifiers = @ \cup tx.orchard_nullifiers]

cache_outputs_from(s, tx_id, tx) ==
  [s EXCEPT
     !.created_outputs =
        [o \in DOMAIN s.created_outputs
               \cup {OutPoint(mined_id(tx_id), i - 1) : i \in 1..Len(tx.outputs)} |->
           IF o.hash = mined_id(tx_id) /\ o.index + 1 \in 1..Len(tx.outputs)
             THEN tx.outputs[o.index + 1]
             ELSE s.created_outputs[o]],
     !.spent_outpoints = @ \cup tx.spent_outpoints,
     !.sprout_nullifiers = @ \cup tx.sprout_nullifiers,
     !.sapling_nullifiers = @ \cup tx.sapling_nullifiers,
     !.orchard_nullifiers = @ \cup tx.orchard_nullifiers]

\* remove_from_set removing nothing.
remove_from_set_keeping_all(index, items) == index

remove_from_set(index, items) == index \ items

\* remove_outputs without the loop over the created outputs.
remove_outputs_keeping_created_outputs(s, unmined_tx) ==
  [s EXCEPT
     !.spent_outpoints = remove_from_set(@, unmined_tx.spent_outpoints),
     !.sprout_nullifiers = remove_from_set(@, unmined_tx.sprout_nullifiers),
     !.sapling_nullifiers = remove_from_set(@, unmined_tx.sapling_nullifiers),
     !.orchard_nullifiers = remove_from_set(@, unmined_tx.orchard_nullifiers)]

\* remove_outputs emptying the spent-outpoints index.
remove_outputs_clearing_spent_outpoints(s, unmined_tx) ==
  [s EXCEPT
     !.created_outputs =
        [o \in DOMAIN s.created_outputs
               \ {OutPoint(mined_id(unmined_tx.id), i - 1) : i \in 1..Len(unmined_tx.outputs)} |->
           s.created_outputs[o]],
     !.spent_outpoints = {},
     !.sprout_nullifiers = remove_from_set(@, unmined_tx.sprout_nullifiers),
     !.sapling_nullifiers = remove_from_set(@, unmined_tx.sapling_nullifiers),
     !.orchard_nullifiers = remove_from_set(@, unmined_tx.orchard_nullifiers)]

\* remove_outputs without the three nullifier indices.
remove_outputs_keeping_nullifiers(s, unmined_tx) ==
  [s EXCEPT
     !.created_outputs =
        [o \in DOMAIN s.created_outputs
               \ {OutPoint(mined_id(unmined_tx.id), i - 1) : i \in 1..Len(unmined_tx.outputs)} |->
           s.created_outputs[o]],
     !.spent_outpoints = remove_from_set(@, unmined_tx.spent_outpoints)]

remove_outputs(s, unmined_tx) ==
  [s EXCEPT
     !.created_outputs =
        [o \in DOMAIN s.created_outputs
               \ {OutPoint(mined_id(unmined_tx.id), i - 1) : i \in 1..Len(unmined_tx.outputs)} |->
           s.created_outputs[o]],
     !.spent_outpoints = remove_from_set(@, unmined_tx.spent_outpoints),
     !.sprout_nullifiers = remove_from_set(@, unmined_tx.sprout_nullifiers),
     !.sapling_nullifiers = remove_from_set(@, unmined_tx.sapling_nullifiers),
     !.orchard_nullifiers = remove_from_set(@, unmined_tx.orchard_nullifiers)]

\* update_metrics adding conventional_actions alone to paid_actions.
update_metrics_paid_without_subtraction(s) ==
  LET txs == s.transactions
      ids == DOMAIN txs
      r(k) == txs[k].fee_weight_ratio
      lt1 == {k \in ids : r(k) < 100}
      size_of == [k \in ids |-> txs[k].size]
      unpaid_of == [k \in ids |-> txs[k].unpaid_actions]
      paid_of == [k \in ids |-> txs[k].conventional_actions]
  IN [ unpaid_lt20 |-> Sum(unpaid_of, {k \in lt1 : r(k) < 20}),
       unpaid_lt40 |-> Sum(unpaid_of, {k \in lt1 : r(k) >= 20 /\ r(k) < 40}),
       unpaid_lt60 |-> Sum(unpaid_of, {k \in lt1 : r(k) >= 40 /\ r(k) < 60}),
       unpaid_lt80 |-> Sum(unpaid_of, {k \in lt1 : r(k) >= 60 /\ r(k) < 80}),
       unpaid_lt1 |-> Sum(unpaid_of, {k \in lt1 : r(k) >= 80}),
       paid |-> Sum(paid_of, ids),
       size_transactions |-> transaction_count(s),
       weighted_lt1 |-> Sum(size_of, lt1),
       weighted_eq1 |-> Sum(size_of, {k \in ids : r(k) = 100}),
       weighted_gt1 |-> Sum(size_of, {k \in ids : r(k) > 100 /\ r(k) <= 200}),
       weighted_gt2 |-> Sum(size_of, {k \in ids : r(k) > 200 /\ r(k) <= 300}),
       weighted_gt3 |-> Sum(size_of, {k \in ids : r(k) > 300}),
       size_bytes |-> s.transactions_serialized_size,
       cost_bytes |-> s.total_cost ]

\* The values update_metrics sets the gauges to.  r is fee_weight_ratio in
\* hundredths.
update_metrics(s) ==
  LET txs == s.transactions
      ids == DOMAIN txs
      r(k) == txs[k].fee_weight_ratio
      lt1 == {k \in ids : r(k) < 100}
      size_of == [k \in ids |-> txs[k].size]
      unpaid_of == [k \in ids |-> txs[k].unpaid_actions]
      paid_of == [k \in ids |-> txs[k].conventional_actions - txs[k].unpaid_actions]
  IN [ unpaid_lt20 |-> Sum(unpaid_of, {k \in lt1 : r(k) < 20}),
       unpaid_lt40 |-> Sum(unpaid_of, {k \in lt1 : r(k) >= 20 /\ r(k) < 40}),
       unpaid_lt60 |-> Sum(unpaid_of, {k \in lt1 : r(k) >= 40 /\ r(k) < 60}),
       unpaid_lt80 |-> Sum(unpaid_of, {k \in lt1 : r(k) >= 60 /\ r(k) < 80}),
       unpaid_lt1 |-> Sum(unpaid_of, {k \in lt1 : r(k) >= 80}),
       paid |-> Sum(paid_of, ids),
       size_transactions |-> transaction_count(s),
       weighted_lt1 |-> Sum(size_of, lt1),
       weighted_eq1 |-> Sum(size_of, {k \in ids : r(k) = 100}),
       weighted_gt1 |-> Sum(size_of, {k \in ids : r(k) > 100 /\ r(k) <= 200}),
       weighted_gt2 |-> Sum(size_of, {k \in ids : r(k) > 200 /\ r(k) <= 300}),
       weighted_gt3 |-> Sum(size_of, {k \in ids : r(k) > 300}),
       size_bytes |-> s.transactions_serialized_size,
       cost_bytes |-> s.total_cost ]

\* The result of a call: the set and the gauges it leaves, and what it
\* returns.
Result(s, g, ret) == [set |-> s, gauges |-> g, ret |-> ret, panicked |-> FALSE]

\* The call panicked, leaving the set and the gauges as given.
Panic(s, g) == [set |-> s, gauges |-> g, ret |-> "panic", panicked |-> TRUE]

\* clear without the call of update_metrics.
clear_without_update_metrics(s, g) ==
  LET s1 == [s EXCEPT !.transactions = [k \in {} |-> 0],
                      !.spent_outpoints = {},
                      !.sprout_nullifiers = {},
                      !.sapling_nullifiers = {},
                      !.orchard_nullifiers = {},
                      !.transactions_serialized_size = 0,
                      !.total_cost = 0]
  IN Result(s1, g, "unit")

\* clear without the reset of total_cost.
clear_keeping_total_cost(s, g) ==
  LET s1 == [s EXCEPT !.transactions = [k \in {} |-> 0],
                      !.spent_outpoints = {},
                      !.sprout_nullifiers = {},
                      !.sapling_nullifiers = {},
                      !.orchard_nullifiers = {},
                      !.transactions_serialized_size = 0]
  IN Result(s1, update_metrics(s1), "unit")

clear(s, g) ==
  LET s1 == [s EXCEPT !.transactions = [k \in {} |-> 0],
                      !.spent_outpoints = {},
                      !.sprout_nullifiers = {},
                      !.sapling_nullifiers = {},
                      !.orchard_nullifiers = {},
                      !.transactions_serialized_size = 0,
                      !.total_cost = 0]
  IN Result(s1, update_metrics(s1), "unit")

\* insert calling update_metrics before the transaction enters the map.
insert_emitting_before_map_insert(s, g, transaction) ==
  IF has_spend_conflicts(s, transaction)
    THEN Result(s, g, "SpendConflict")
    ELSE LET tx_id == transaction.id
             s1 == cache_outputs_from(s, tx_id, transaction)
             s2 == [s1 EXCEPT !.transactions_serialized_size = @ + transaction.size]
             s3 == [s2 EXCEPT !.total_cost = @ + cost(transaction)]
             s4 == [s3 EXCEPT !.transactions = MapInsert(@, tx_id, transaction)]
         IN Result(s4, update_metrics(s3), "Ok")

\* insert that also records, for each held transaction whose output the new
\* one spends, an edge in both dependency maps.
insert_recording_dependencies(s, g, transaction) ==
  IF has_spend_conflicts(s, transaction)
    THEN Result(s, g, "SpendConflict")
    ELSE LET tx_id == transaction.id
             parents == {k \in DOMAIN s.transactions :
                           \E o \in transaction.spent_outpoints :
                             o \in DOMAIN s.created_outputs /\ o.hash = mined_id(k)}
             s0 == IF parents = {} THEN s
                   ELSE [s EXCEPT
                           !.dependencies = MapInsert(@, tx_id, parents),
                           !.dependants =
                              [k \in DOMAIN @ \cup parents |->
                                 IF k \in parents
                                   THEN (IF k \in DOMAIN @ THEN @[k] ELSE {}) \cup {tx_id}
                                   ELSE @[k]]]
             s1 == cache_outputs_from(s0, tx_id, transaction)
             s2 == [s1 EXCEPT !.transactions_serialized_size = @ + transaction.size]
             s3 == [s2 EXCEPT !.total_cost = @ + cost(transaction)]
             s4 == [s3 EXCEPT !.transactions = MapInsert(@, tx_id, transaction)]
         IN Result(s4, update_metrics(s4), "Ok")

\* insert caching the outputs before the conflict check.
insert_caching_before_check(s, g, transaction) ==
  LET tx_id == transaction.id
      s1 == cache_outputs_from(s, tx_id, transaction)
  IN IF has_spend_conflicts(s, transaction)
       THEN Result(s1, g, "SpendConflict")
       ELSE LET s2 == [s1 EXCEPT !.transactions_serialized_size = @ + transaction.size]
                s3 == [s2 EXCEPT !.total_cost = @ + cost(transaction)]
                s4 == [s3 EXCEPT !.transactions = MapInsert(@, tx_id, transaction)]
            IN Result(s4, update_metrics(s4), "Ok")

insert(s, g, transaction) ==
  IF has_spend_conflicts(s, transaction)
    THEN Result(s, g, "SpendConflict")
    ELSE LET tx_id == transaction.id
             s1 == cache_outputs_from(s, tx_id, transaction)
             s2 == [s1 EXCEPT !.transactions_serialized_size = @ + transaction.size]
             s3 == [s2 EXCEPT !.total_cost = @ + cost(transaction)]
             s4 == [s3 EXCEPT !.transactions = MapInsert(@, tx_id, transaction)]
         IN Result(s4, update_metrics(s4), "Ok")

\* remove without the subtraction from total_cost.
remove_keeping_total_cost(s, g, key_to_remove) ==
  IF key_to_remove \notin DOMAIN s.transactions
    THEN Panic(s, g)
    ELSE LET removed_tx == s.transactions[key_to_remove]
             s1 == [s EXCEPT !.transactions = MapRemove(@, key_to_remove)]
         IN IF s1.transactions_serialized_size < removed_tx.size
              THEN Panic(s1, g)
              ELSE LET s2 == [s1 EXCEPT !.transactions_serialized_size = @ - removed_tx.size]
                       s4 == remove_outputs(s2, removed_tx)
                   IN Result(s4, update_metrics(s4), removed_tx)

\* Private.  An absent key, or a counter that would go below zero, panics.
remove(s, g, key_to_remove) ==
  IF key_to_remove \notin DOMAIN s.transactions
    THEN Panic(s, g)
    ELSE LET removed_tx == s.transactions[key_to_remove]
             s1 == [s EXCEPT !.transactions = MapRemove(@, key_to_remove)]
         IN IF \/ s1.transactions_serialized_size < removed_tx.size
               \/ s1.total_cost < cost(removed_tx)
              THEN Panic(s1, g)
              ELSE LET s2 == [s1 EXCEPT !.transactions_serialized_size = @ - removed_tx.size]
                       s3 == [s2 EXCEPT !.total_cost = @ - cost(removed_tx)]
                       s4 == remove_outputs(s3, removed_tx)
                   IN Result(s4, update_metrics(s4), removed_tx)

\* The sampler drawing among all offered ids, held or not.
EvictionCandidates_of_all_offered(s) == TxIds

\* The keys WeightedIndex can sample: those of positive weight.
EvictionCandidates(s) ==
  {k \in DOMAIN s.transactions : eviction_weight(s.transactions[k]) > 0}

\* evict_one without the test for an empty set.
evict_one_without_empty_test(s, g, key_to_remove) == remove(s, g, key_to_remove)

\* rand's WeightedIndex::new: an error when there is no weight or the
\* weights are all zero.
WeightedIndex_new(weights) ==
  IF DOMAIN weights = {} \/ Sum(weights, DOMAIN weights) = 0 THEN "Err" ELSE "Ok"

\* evict_one weighing each transaction by its low fee penalty alone.
evict_one_weighing_penalty_only(s, g, key_to_remove) ==
  IF DOMAIN s.transactions = {}
    THEN Result(s, g, "None")
    ELSE LET weights == [k \in DOMAIN s.transactions |->
                           IF s.transactions[k].miner_fee < CONVENTIONAL_FEE
                             THEN LOW_FEE_PENALTY ELSE 0]
         IN IF WeightedIndex_new(weights) = "Err"
              THEN Panic(s, g)
              ELSE remove(s, g, key_to_remove)

\* evict_one with the sampler drawing key_to_remove; nothing is drawn when
\* the set is empty, and a distribution that cannot be built panics.
evict_one(s, g, key_to_remove) ==
  IF DOMAIN s.transactions = {}
    THEN Result(s, g, "None")
    ELSE LET weights == [k \in DOMAIN s.transactions |->
                           eviction_weight(s.transactions[k])]
         IN IF WeightedIndex_new(weights) = "Err"
              THEN Panic(s, g)
              ELSE remove(s, g, key_to_remove)

\* The loop of remove_all_that leaving after its first removal.
remove_keys_leaving_after_first(s, g, keys_to_remove) ==
  IF keys_to_remove = {} THEN Result(s, g, "unit")
  ELSE LET r == remove(s, g, CHOOSE k \in keys_to_remove : TRUE)
       IN IF r.panicked THEN r ELSE Result(r.set, r.gauges, "unit")

RECURSIVE remove_keys(_, _, _)
\* The loop of remove_all_that over keys_to_remove.
remove_keys(s, g, keys_to_remove) ==
  IF keys_to_remove = {} THEN Result(s, g, "unit")
  ELSE LET key_to_remove == CHOOSE k \in keys_to_remove : TRUE
           r == remove(s, g, key_to_remove)
       IN IF r.panicked THEN r
          ELSE remove_keys(r.set, r.gauges, keys_to_remove \ {key_to_remove})

\* predicate is the set of transactions the caller's predicate accepts.
remove_all_that(s, g, predicate) ==
  LET keys_to_remove == {k \in DOMAIN s.transactions : s.transactions[k] \in predicate}
      removed_count == Cardinality(keys_to_remove)
      r == remove_keys(s, g, keys_to_remove)
  IN IF r.panicked THEN r ELSE Result(r.set, r.gauges, removed_count)

\* Drop for VerifiedSet
drop(s, g) == clear(s, g)

----------------------------------------------------------------------------
(* AddressBookUpdater                                                      *)

\* config.peerset_total_connection_limit(): the capacity of the channel.
ChannelCapacity == 2

\* Number of senders: the one spawn returns and its clones.
NumSenders == 2

\* Number of events the senders send in all.
MaxEvents == 3

SenderIds == 1..NumSenders

\* The worker holds no event.
NoEvent == [sender |-> 0, seq |-> 0]

\* The updater after AddressBookUpdater::spawn: the channel is empty, the
\* returned worker_tx (sender 1) is the only sender, the address book is
\* new, the worker is about to call blocking_recv.
InitUpdater ==
  /\ senders = [s \in SenderIds |-> IF s = 1 THEN "alive" ELSE "unborn"]
  /\ channel = << >>
  /\ entered = << >>
  /\ worker_pc = "recv"
  /\ event = NoEvent
  /\ mutex = "free"
  /\ address_book = << >>
  /\ handle = "running"

\* mpsc::Sender::clone
SenderClone ==
  \E s \in SenderIds, t \in SenderIds :
    /\ senders[s] = "alive"
    /\ senders[t] = "unborn"
    /\ senders' = [senders EXCEPT ![t] = "alive"]
    /\ UNCHANGED <<channel, entered, worker_pc, event, mutex, address_book, handle>>
    /\ UNCHANGED <<svars, vvars>>

\* mpsc::Sender::send on a channel without a capacity.
SenderSend_unbounded ==
  \E s \in SenderIds :
    /\ senders[s] = "alive"
    /\ worker_pc # "done"
    /\ Len(entered) < MaxEvents
    /\ LET e == [sender |-> s, seq |-> Len(entered) + 1]
       IN /\ channel' = Append(channel, e)
          /\ entered' = Append(entered, e)
    /\ UNCHANGED <<senders, worker_pc, event, mutex, address_book, handle>>
    /\ UNCHANGED <<svars, vvars>>

\* mpsc::Sender::send completes: it waits while the channel holds
\* ChannelCapacity events.
SenderSend ==
  \E s \in SenderIds :
    /\ senders[s] = "alive"
    /\ worker_pc # "done"
    /\ Len(entered) < MaxEvents
    /\ Len(channel) < ChannelCapacity
    /\ LET e == [sender |-> s, seq |-> Len(entered) + 1]
       IN /\ channel' = Append(channel, e)
          /\ entered' = Append(entered, e)
    /\ UNCHANGED <<senders, worker_pc, event, mutex, address_book, handle>>
    /\ UNCHANGED <<svars, vvars>>

\* A sender is dropped.
SenderDrop ==
  \E s \in SenderIds :
    /\ senders[s] = "alive"
    /\ senders' = [senders EXCEPT ![s] = "dropped"]
    /\ UNCHANGED <<channel, entered, worker_pc, event, mutex, address_book, handle>>
    /\ UNCHANGED <<svars, vvars>>

\* blocking_recv returns the newest queued event.
WorkerRecv_taking_newest ==
  /\ worker_pc = "recv"
  /\ channel # << >>
  /\ event' = channel[Len(channel)]
  /\ channel' = SubSeq(channel, 1, Len(channel) - 1)
  /\ worker_pc' = "lock"
  /\ UNCHANGED <<senders, entered, mutex, address_book, handle>>
  /\ UNCHANGED <<svars, vvars>>

\* worker_rx.blocking_recv() returns Some(event): the oldest queued event.
WorkerRecv ==
  /\ worker_pc = "recv"
  /\ channel # << >>
  /\ event' = Head(channel)
  /\ channel' = Tail(channel)
  /\ worker_pc' = "lock"
  /\ UNCHANGED <<senders, entered, mutex, address_book, handle>>
  /\ UNCHANGED <<svars, vvars>>

\* blocking_recv returns None as soon as the channel is empty.
WorkerClosed_on_empty_channel ==
  /\ worker_pc = "recv"
  /\ channel = << >>
  /\ worker_pc' = "done"
  /\ handle' = "Err(AllSendersClosed)"
  /\ UNCHANGED <<senders, channel, entered, event, mutex, address_book>>
  /\ UNCHANGED <<svars, vvars>>

\* worker_rx.blocking_recv() returns None: the channel is empty and every
\* sender is dropped.  The worker returns Err(AllAddressBookUpdaterSendersClosed).
WorkerClosed ==
  /\ worker_pc = "recv"
  /\ channel = << >>
  /\ \A s \in SenderIds : senders[s] # "alive"
  /\ worker_pc' = "done"
  /\ handle' = "Err(AllSendersClosed)"
  /\ UNCHANGED <<senders, channel, entered, event, mutex, address_book>>
  /\ UNCHANGED <<svars, vvars>>

\* worker_address_book.lock(): waits while another thread holds the mutex.
WorkerLock ==
  /\ worker_pc = "lock"
  /\ mutex = "free"
  /\ mutex' = "worker"
  /\ worker_pc' = "update"
  /\ UNCHANGED <<senders, channel, entered, event, address_book, handle>>
  /\ UNCHANGED <<svars, vvars>>

\* .update(event) with the guard kept after the statement.
WorkerUpdate_keeping_guard ==
  /\ worker_pc = "update"
  /\ address_book' = Append(address_book, event)
  /\ event' = NoEvent
  /\ worker_pc' = "recv"
  /\ UNCHANGED <<senders, channel, entered, mutex, handle>>
  /\ UNCHANGED <<svars, vvars>>

\* .update(event) with the guard kept while the next queued event is taken.
WorkerUpdate_draining_under_guard ==
  /\ worker_pc = "update"
  /\ address_book' = Append(address_book, event)
  /\ IF channel = << >>
       THEN /\ mutex' = "free"
            /\ event' = NoEvent
            /\ worker_pc' = "recv"
            /\ UNCHANGED channel
       ELSE /\ event' = Head(channel)
            /\ channel' = Tail(channel)
            /\ UNCHANGED <<mutex, worker_pc>>
  /\ UNCHANGED <<senders, entered, handle>>
  /\ UNCHANGED <<svars, vvars>>

\* .update(event), then the guard is released at the end of the statement.
WorkerUpdate ==
  /\ worker_pc = "update"
  /\ address_book' = Append(address_book, event)
  /\ mutex' = "free"
  /\ event' = NoEvent
  /\ worker_pc' = "recv"
  /\ UNCHANGED <<senders, channel, entered, handle>>
  /\ UNCHANGED <<svars, vvars>>

\* Another holder of the Arc<Mutex<AddressBook>> locks it.
ReaderLock ==
  /\ mutex = "free"
  /\ mutex' = "reader"
  /\ UNCHANGED <<senders, channel, entered, worker_pc, event, address_book, handle>>
  /\ UNCHANGED <<svars, vvars>>

\* The other holder releases the mutex.
ReaderUnlock ==
  /\ mutex = "reader"
  /\ mutex' = "free"
  /\ UNCHANGED <<senders, channel, entered, worker_pc, event, address_book, handle>>
  /\ UNCHANGED <<svars, vvars>>

----------------------------------------------------------------------------
(* CachedFfiTransaction                                                    *)

\* Number of consensus branch ids.
NumBranches == 2

\* Longest all_previous_outputs given to the constructor.
MaxPrevOutputs == 2

\* Largest input_index given to is_valid (indexes start at 0).
MaxInputIndex == 2

BranchIds == 1..NumBranches

\* transparent::Script: the key it names and what
\* legacy_sigop_count_script counts in it.
Script(key, sigops) == [key |-> key, sigops |-> sigops]

\* transparent::Output
Output(value, lock_script) == [value |-> value, lock_script |-> lock_script]

\* SigHasher::sighash for the input at input_index: it commits to the
\* transaction, the branch id, the input and the value of the output the
\* input spends.
sighash(transaction, branch_id, all_previous_outputs, input_index) ==
  [tx |-> transaction.id, branch |-> branch_id, index |-> input_index,
   value |-> all_previous_outputs[input_index + 1].value]

\* transparent::Input::PrevOut: an unlock script with a signature by `key`
\* over the sighash of input `index` of transaction `tx` under `branch`,
\* spending an output of `value`.
PrevOut(key, sigops, tx, branch, index, value) ==
  [kind |-> "PrevOut",
   unlock_script |-> Script(key, sigops),
   signed |-> [tx |-> tx, branch |-> branch, index |-> index, value |-> value]]

\* transparent::Input::Coinbase: its data would count `sigops` if it were
\* read as a script.
Coinbase(sigops) == [kind |-> "Coinbase", data |-> Script(0, sigops)]

\* The transactions given to the constructor.
ScriptTxTable ==
  << \* one input that spends 212 locked to key 1 (SCRIPT_TX of the tests)
     [id |-> 1,
      inputs |-> << PrevOut(1, 0, 1, 1, 0, 212) >>,
      outputs |-> << Output(100, Script(3, 0)), Output(111, Script(4, 1)) >>],
     \* a coinbase transaction
     [id |-> 2,
      inputs |-> << Coinbase(2) >>,
      outputs |-> << Output(50, Script(1, 1)) >>],
     \* two inputs, signed under different branches
     [id |-> 3,
      inputs |-> << PrevOut(1, 1, 3, 1, 0, 212), PrevOut(2, 2, 3, 2, 1, 5) >>,
      outputs |-> << Output(200, Script(3, 3)) >>],
     \* a coinbase input at index 1
     [id |-> 4,
      inputs |-> << PrevOut(2, 1, 4, 1, 0, 5), Coinbase(1) >>,
      outputs |-> << >>],
     \* no transparent input
     [id |-> 5,
      inputs |-> << >>,
      outputs |-> << Output(7, Script(2, 2)) >> ] >>

ScriptTxs == {ScriptTxTable[i] : i \in DOMAIN ScriptTxTable}

\* The outputs all_previous_outputs is made of.
PrevOutputs ==
  {Output(212, Script(1, 1)), Output(211, Script(1, 1)), Output(5, Script(2, 0))}

\* The sequences of at most n previous outputs.
RECURSIVE PrevOutputSeqs(_)
PrevOutputSeqs(n) ==
  IF n = 0 THEN {<< >>}
  ELSE LET shorter == PrevOutputSeqs(n - 1)
       IN shorter \cup {Append(q, o) : q \in {p \in shorter : Len(p) = n - 1}, o \in PrevOutputs}

\* No verifier has been constructed.
NoVerifier == [transaction |-> [id |-> 0, inputs |-> << >>, outputs |-> << >>],
               all_previous_outputs |-> << >>, constructed |-> FALSE]

\* CachedFfiTransaction::new
new(transaction, all_previous_outputs) ==
  [transaction |-> transaction, all_previous_outputs |-> all_previous_outputs,
   constructed |-> TRUE]

\* What a call of is_valid did: its return value, whether the script
\* engine ran, whether the call panicked.
Outcome(ret, engine_ran) == [ret |-> ret, engine_ran |-> engine_ran, panicked |-> FALSE]

\* The call panicked before the script engine ran.
ScriptPanic == [ret |-> "panic", engine_ran |-> FALSE, panicked |-> TRUE]

\* zcash_script::Cxx::verify_callback: the signature script satisfies the
\* script_pub_key if it is signed by the key the script_pub_key names and
\* the signature is over the sighash the callback computes.
verify_callback(sighash_result, script_pub_key, input) ==
  IF input.unlock_script.key = script_pub_key.key /\ input.signed = sighash_result
  THEN "Ok" ELSE "Err"

\* zcash_script::Cxx::legacy_sigop_count_script
legacy_sigop_count_script(script) == script.sigops

\* is_valid taking the last previous output for an index past the end.
is_valid_clamping_index(v, branch_id, input_index) ==
  IF v.all_previous_outputs = << >> THEN Outcome("TxIndex", FALSE)
  ELSE
    LET at == IF input_index < Len(v.all_previous_outputs)
              THEN input_index ELSE Len(v.all_previous_outputs) - 1
        script_pub_key == v.all_previous_outputs[at + 1].lock_script
    IN IF at >= Len(v.transaction.inputs) THEN ScriptPanic
       ELSE
         LET input == v.transaction.inputs[at + 1]
         IN IF input.kind = "Coinbase" THEN Outcome("TxCoinbase", FALSE)
            ELSE
              LET ret == verify_callback(
                           sighash(v.transaction, branch_id, v.all_previous_outputs, at),
                           script_pub_key, input)
              IN Outcome(IF ret = "Ok" THEN "Ok" ELSE "ScriptInvalid", TRUE)

\* is_valid returning the error of the call before it once more.
is_valid_remembering_failure(v, branch_id, input_index) ==
  IF call.op = "is_valid" /\ call.ret \in {"TxIndex", "ScriptInvalid"}
  THEN Outcome(call.ret, call.engine_ran)
  ELSE IF input_index >= Len(v.all_previous_outputs) THEN Outcome("TxIndex", FALSE)
  ELSE
    LET script_pub_key == v.all_previous_outputs[input_index + 1].lock_script
    IN IF input_index >= Len(v.transaction.inputs) THEN ScriptPanic
       ELSE
         LET input == v.transaction.inputs[input_index + 1]
         IN IF input.kind = "Coinbase" THEN Outcome("TxCoinbase", FALSE)
            ELSE
              LET ret == verify_callback(
                           sighash(v.transaction, branch_id, v.all_previous_outputs,
                                   input_index),
                           script_pub_key, input)
              IN Outcome(IF ret = "Ok" THEN "Ok" ELSE "ScriptInvalid", TRUE)

\* CachedFfiTransaction::is_valid
is_valid(v, branch_id, input_index) ==
  \* self.all_previous_outputs.get(input_index).ok_or(Error::TxIndex)?
  IF input_index >= Len(v.all_previous_outputs) THEN Outcome("TxIndex", FALSE)
  ELSE
    LET script_pub_key == v.all_previous_outputs[input_index + 1].lock_script
    IN \* self.transaction.inputs()[input_index]
       IF input_index >= Len(v.transaction.inputs) THEN ScriptPanic
       ELSE
         LET input == v.transaction.inputs[input_index + 1]
         IN IF input.kind = "Coinbase" THEN Outcome("TxCoinbase", FALSE)
            ELSE
              LET ret == verify_callback(
                           sighash(v.transaction, branch_id, v.all_previous_outputs,
                                   input_index),
                           script_pub_key, input)
              IN \* ret.map_err(Error::ScriptInvalid)
                 Outcome(IF ret = "Ok" THEN "Ok" ELSE "ScriptInvalid", TRUE)

\* The count of one input, the data of a coinbase input counted as well.
input_sigops_counting_coinbase(input) ==
  IF input.kind = "PrevOut"
  THEN legacy_sigop_count_script(input.unlock_script)
  ELSE legacy_sigop_count_script(input.data)

\* The match in the loop over the inputs of legacy_sigop_count.
input_sigops(input) ==
  IF input.kind = "PrevOut" THEN legacy_sigop_count_script(input.unlock_script) ELSE 0

\* The first loop of legacy_sigop_count.
RECURSIVE count_inputs(_, _)
count_inputs(inputs, count) ==
  IF inputs = << >> THEN count
  ELSE count_inputs(Tail(inputs), count + input_sigops(Head(inputs)))

\* The second loop of legacy_sigop_count.
RECURSIVE count_outputs(_, _)
count_outputs(outputs, count) ==
  IF outputs = << >> THEN count
  ELSE count_outputs(Tail(outputs),
                     count + legacy_sigop_count_script(Head(outputs).lock_script))

\* CachedFfiTransaction::legacy_sigop_count
legacy_sigop_count(v) ==
  count_outputs(v.transaction.outputs, count_inputs(v.transaction.inputs, 0))

\* No call yet.
NoCall == [op |-> "none"]

InitScript ==
  /\ verifier = NoVerifier
  /\ call = NoCall
  /\ earlier = NoCall

\* A verifier is constructed.
New ==
  /\ ~verifier.constructed
  /\ \E transaction \in ScriptTxs, all_previous_outputs \in PrevOutputSeqs(MaxPrevOutputs) :
       verifier' = new(transaction, all_previous_outputs)
  /\ UNCHANGED <<call, earlier>>
  /\ UNCHANGED <<svars, uvars>>

\* Some call made before the next one: the one kept so far or the last one.
KeepEarlier == earlier' \in {earlier, call}

\* A call of is_valid on the verifier.
IsValid ==
  /\ verifier.constructed
  /\ \E branch_id \in BranchIds, input_index \in 0..MaxInputIndex :
       LET r == is_valid(verifier, branch_id, input_index)
       IN call' = [op |-> "is_valid", branch_id |-> branch_id, input_index |-> input_index,
                   ret |-> r.ret, engine_ran |-> r.engine_ran, panicked |-> r.panicked]
  /\ KeepEarlier
  /\ UNCHANGED verifier
  /\ UNCHANGED <<svars, uvars>>

\* A call of legacy_sigop_count on the verifier.
LegacySigopCount ==
  /\ verifier.constructed
  /\ call' = [op |-> "legacy_sigop_count", ret |-> legacy_sigop_count(verifier)]
  /\ KeepEarlier
  /\ UNCHANGED verifier
  /\ UNCHANGED <<svars, uvars>>

----------------------------------------------------------------------------
(* The owner's calls                                                       *)

\* The set has not been dropped.
Alive == last.op # "drop"

\* The VerifiedSet after VerifiedSet::default().
InitSet ==
  /\ set = Default
  /\ gauges = NoGauges
  /\ last = [op |-> "new"]

Insert ==
  \E tx \in Txs :
    LET r == insert(set, gauges, tx)
    IN /\ Alive
       /\ set' = r.set
       /\ gauges' = r.gauges
       /\ last' = [op |-> "insert", arg |-> tx.id, ret |-> r.ret]
       /\ UNCHANGED <<uvars, vvars>>

EvictNone ==
  /\ Alive
  /\ DOMAIN set.transactions = {}
  /\ LET r == evict_one(set, gauges, CHOOSE k \in TxIds : TRUE)
     IN /\ set' = r.set
        /\ gauges' = r.gauges
        /\ last' = [op |-> "evict_one", ret |-> IF r.panicked THEN "panic" ELSE r.ret]
        /\ UNCHANGED <<uvars, vvars>>

EvictSome ==
  /\ Alive
  /\ DOMAIN set.transactions # {}
  /\ \E key_to_remove \in (IF EvictionCandidates(set) = {}
                             THEN DOMAIN set.transactions
                             ELSE EvictionCandidates(set)) :
       LET r == evict_one(set, gauges, key_to_remove)
       IN /\ set' = r.set
          /\ gauges' = r.gauges
          /\ last' = [op |-> "evict_one", ret |-> IF r.panicked THEN "panic" ELSE "Some", id |-> key_to_remove]
          /\ UNCHANGED <<uvars, vvars>>

\* The caller's predicate is given by the held transactions it accepts: it
\* is evaluated on held transactions only.
RemoveAllThat ==
  \E predicate \in SUBSET {set.transactions[k] : k \in DOMAIN set.transactions} :
    LET r == remove_all_that(set, gauges, predicate)
    IN /\ Alive
       /\ set' = r.set
       /\ gauges' = r.gauges
       /\ last' = [op |-> "remove_all_that", arg |-> {t.id : t \in predicate}, ret |-> r.ret]
       /\ UNCHANGED <<uvars, vvars>>

Clear ==
  LET r == clear(set, gauges)
  IN /\ Alive
     /\ set' = r.set
     /\ gauges' = r.gauges
     /\ last' = [op |-> "clear"]
     /\ UNCHANGED <<uvars, vvars>>

\* The owner drops the set; no call follows.
Drop ==
  LET r == drop(set, gauges)
  IN /\ Alive
     /\ set' = r.set
     /\ gauges' = r.gauges
     /\ last' = [op |-> "drop"]
     /\ UNCHANGED <<uvars, vvars>>

Init == InitSet /\ InitUpdater /\ InitScript

\* The cost limit the owner of the set enforces.
mempool_cost_limit == 12000

\* The owner inserts while the set is within the cost limit.
OwnerInsert ==
  /\ total_cost(set) <= mempool_cost_limit
  /\ \E tx \in Txs :
       LET r == insert(set, gauges, tx)
       IN /\ set' = r.set
          /\ gauges' = r.gauges
          /\ last' = [op |-> "insert", arg |-> tx.id, ret |-> r.ret]
          /\ UNCHANGED <<uvars, vvars>>

\* The owner calls evict_one while the set is over the cost limit.
OwnerEvict ==
  /\ total_cost(set) > mempool_cost_limit
  /\ \E key_to_remove \in (IF DOMAIN set.transactions = {} THEN TxIds
                             ELSE IF EvictionCandidates(set) = {}
                               THEN DOMAIN set.transactions
                               ELSE EvictionCandidates(set)) :
       LET r == evict_one(set, gauges, key_to_remove)
       IN /\ set' = r.set
          /\ gauges' = r.gauges
          /\ last' = [op |-> "evict_one",
                      ret |-> IF r.panicked THEN "panic"
                              ELSE IF DOMAIN set.transactions = {} THEN "None" ELSE "Some",
                      id |-> key_to_remove]
          /\ UNCHANGED <<uvars, vvars>>

NextOwner == OwnerInsert \/ OwnerEvict

\* The owner's loop goes on while the set is over the cost limit.
FairSpecOwner == Init /\ [][NextOwner]_vars /\ WF_vars(OwnerEvict)

Next == Insert \/ EvictNone \/ EvictSome \/ RemoveAllThat \/ Clear \/ Drop

Spec == Init /\ [][Next]_vars

NextUpdater ==
  \/ SenderClone \/ SenderSend \/ SenderDrop
  \/ WorkerRecv \/ WorkerClosed \/ WorkerLock \/ WorkerUpdate
  \/ ReaderLock \/ ReaderUnlock

SpecUpdater == Init /\ [][NextUpdater]_vars

NextScript == New \/ IsValid \/ LegacySigopCount

SpecScript == Init /\ [][NextScript]_vars

\* The worker runs on its own blocking thread (spawn_blocking): each of its
\* steps is taken if it stays possible.  lock() is possible only while the
\* mutex is free, so it is taken if it is possible again and again; every
\* other holder of the mutex releases it.
FairSpecUpdater ==
  /\ SpecUpdater
  /\ WF_vars(WorkerRecv)
  /\ WF_vars(WorkerClosed)
  /\ SF_vars(WorkerLock)
  /\ WF_vars(WorkerUpdate)
  /\ WF_vars(ReaderUnlock)

----------------------------------------------------------------------------
(* Vocabulary of the properties                                            *)

\* The offered transaction with the given id.
TxOf(id) == CHOOSE t \in Txs : t.id = id

\* The transactions the set holds.
Held == {set.transactions[k] : k \in DOMAIN set.transactions}

\* Two transactions conflict: they share a spent outpoint or a nullifier of
\* the same family.
Conflict(t, u) ==
  \/ t.spent_outpoints \cap u.spent_outpoints # {}
  \/ t.sprout_nullifiers \cap u.sprout_nullifiers # {}
  \/ t.sapling_nullifiers \cap u.sapling_nullifiers # {}
  \/ t.orchard_nullifiers \cap u.orchard_nullifiers # {}

\* The four spend indices of a set.
Indices(s) ==
  <<s.spent_outpoints, s.sprout_nullifiers, s.sapling_nullifiers, s.orchard_nullifiers>>

InsertReturned(l, ret) == l.op = "insert" /\ l.ret = ret

Removed(l) ==
  \/ l.op = "evict_one" /\ l.ret = "Some"
  \/ l.op = "remove_all_that" /\ l.ret > 0

----------------------------------------------------------------------------
(* Properties                                                              *)

\* C1: an insert that returns SpendConflict leaves every field of the set
\* (transactions, the four spend indices, created_outputs, the size and cost
\* totals) and every gauge as it was before the call.
C1_ConflictChangesNothing ==
  [][InsertReturned(last', "SpendConflict") => set' = set /\ gauges' = gauges]_vars

C1_Witness ==
  /\ InsertReturned(last, "SpendConflict")
  /\ transaction_count(set) > 0
  /\ gauges.size_transactions = transaction_count(set)

\* C2: insert returns SpendConflict exactly when the transaction shares a
\* spent outpoint or a Sprout, Sapling or Orchard nullifier with a held
\* transaction; otherwise it returns Ok; it has no other outcome.
C2_ConflictIff ==
  [][last'.op = "insert" =>
       /\ last'.ret \in {"Ok", "SpendConflict"}
       /\ last'.ret = "SpendConflict" <=> \E u \in Held : Conflict(TxOf(last'.arg), u)]_vars

C2_Witness ==
  /\ InsertReturned(last, "SpendConflict")
  /\ \E u \in Held :
       /\ TxOf(last.arg).sapling_nullifiers \cap u.sapling_nullifiers # {}
       /\ TxOf(last.arg).spent_outpoints \cap u.spent_outpoints = {}

\* C3 (I1, I2): every outpoint of the spent-outpoints index is spent by
\* exactly one held transaction, and every nullifier of a family index is
\* revealed by exactly one held transaction.
C3_IndexEntriesHaveOneOwner ==
  /\ \A o \in set.spent_outpoints :
       Cardinality({t \in Held : o \in t.spent_outpoints}) = 1
  /\ \A n \in set.sprout_nullifiers :
       Cardinality({t \in Held : n \in t.sprout_nullifiers}) = 1
  /\ \A n \in set.sapling_nullifiers :
       Cardinality({t \in Held : n \in t.sapling_nullifiers}) = 1
  /\ \A n \in set.orchard_nullifiers :
       Cardinality({t \in Held : n \in t.orchard_nullifiers}) = 1

C3_Witness ==
  /\ Removed(last)
  /\ set.spent_outpoints # {}
  /\ set.sapling_nullifiers # {}
  /\ Cardinality(Held) >= 2

\* C4 (I3, I4): total_serialized_size() is the sum of size over the held
\* transactions and total_cost() is the sum of cost over them.
C4_TotalsAreSums ==
  /\ total_serialized_size(set) =
       Sum([k \in DOMAIN set.transactions |-> set.transactions[k].size],
           DOMAIN set.transactions)
  /\ total_cost(set) =
       Sum([k \in DOMAIN set.transactions |-> cost(set.transactions[k])],
           DOMAIN set.transactions)

C4_Witness ==
  /\ Removed(last)
  /\ Cardinality(Held) >= 2
  /\ total_cost(set) > total_serialized_size(set)

\* C5 (I5): created_outputs holds exactly the outputs created by the held
\* transactions, each under (mined id of its transaction, output index).
C5_CreatedOutputsExact ==
  /\ DOMAIN set.created_outputs = UNION {OutPointsOf(t) : t \in Held}
  /\ \A t \in Held :
       \A i \in 1..Len(t.outputs) :
         set.created_outputs[OutPoint(mined_id(t.id), i - 1)] = t.outputs[i]

\* C6 (I6): every edge of the depends-on map and of the depended-by map has
\* a held transaction as its key and held transactions as its targets.
C6_EdgesBetweenHeld ==
  /\ \A k \in DOMAIN set.dependencies :
       contains(set, k) /\ \A d \in set.dependencies[k] : contains(set, d)
  /\ \A k \in DOMAIN set.dependants :
       contains(set, k) /\ \A d \in set.dependants[k] : contains(set, d)

\* A held transaction spends an output of a transaction that was removed.
C6_Witness ==
  /\ Removed(last)
  /\ \E t \in Held :
       \E o \in t.spent_outpoints :
         /\ \E u \in Txs : mined_id(u.id) = o.hash
         /\ \A u \in Held : mined_id(u.id) # o.hash

\* C7: a successful insert(tx) adds what tx spends and reveals to the
\* matching index and what it creates to created_outputs, adds tx.size and
\* tx.cost to the totals, makes contains(tx.id) true and raises
\* transaction_count by one; a set holding exactly the two disjoint
\* transactions of size 200 and 300 and cost 4000 each has count 2, size 500
\* and cost 8000.
C7_InsertEffect ==
  [][InsertReturned(last', "Ok") =>
       LET tx == TxOf(last'.arg)
       IN /\ tx.spent_outpoints \subseteq set'.spent_outpoints
          /\ tx.sprout_nullifiers \subseteq set'.sprout_nullifiers
          /\ tx.sapling_nullifiers \subseteq set'.sapling_nullifiers
          /\ tx.orchard_nullifiers \subseteq set'.orchard_nullifiers
          /\ \A i \in 1..Len(tx.outputs) :
               /\ OutPoint(mined_id(tx.id), i - 1) \in DOMAIN set'.created_outputs
               /\ set'.created_outputs[OutPoint(mined_id(tx.id), i - 1)] = tx.outputs[i]
          /\ total_serialized_size(set') = total_serialized_size(set) + tx.size
          /\ total_cost(set') = total_cost(set) + cost(tx)
          /\ contains(set', tx.id)
          /\ transactions(set')[tx.id] = tx
          /\ transaction_count(set') = transaction_count(set) + 1
          /\ (DOMAIN set'.transactions = {TxTable[1].id, TxTable[2].id} =>
                /\ transaction_count(set') = 2
                /\ total_serialized_size(set') = 500
                /\ total_cost(set') = 8000)]_vars

C7_Witness ==
  /\ InsertReturned(last, "Ok")
  /\ DOMAIN set.transactions = {TxTable[1].id, TxTable[2].id}
  /\ TxTable[1].size = 200 /\ TxTable[2].size = 300
  /\ cost(TxTable[1]) = 4000 /\ cost(TxTable[2]) = 4000
  /\ total_cost(set) = 8000

\* The parts of a set that insert and remove maintain: the held
\* transactions, the two totals, the four spend indices and created_outputs.
Contents(s) ==
  <<s.transactions, s.transactions_serialized_size, s.total_cost, Indices(s),
    s.created_outputs>>

\* C8: for every reachable set state and every tx whose insert succeeds,
\* inserting tx and then removing it gives back the same held transactions,
\* totals, spend indices and created_outputs.
C8_InsertRemoveIdentity ==
  \A tx \in Txs :
    LET r == insert(set, gauges, tx)
    IN r.ret = "Ok" => Contents(remove(r.set, r.gauges, tx.id).set) = Contents(set)

\* C9: inserting a transaction that is held returns SpendConflict and
\* leaves the count and the size and cost totals as they were.
C9_SecondInsertConflicts ==
  [][(last'.op = "insert" /\ contains(set, last'.arg)) =>
       /\ last'.ret = "SpendConflict"
       /\ transaction_count(set') = transaction_count(set)
       /\ total_serialized_size(set') = total_serialized_size(set)
       /\ total_cost(set') = total_cost(set)]_vars

C9_Witness ==
  /\ last.op = "insert"
  /\ contains(set, last.arg)
  /\ last.ret = "SpendConflict"
  /\ total_cost(set) = cost(TxOf(last.arg))

\* The results of insert(a); insert(b) from the current state.
InsertBoth(a, b) ==
  LET r1 == insert(set, gauges, a)
      r2 == insert(r1.set, r1.gauges, b)
  IN <<r1, r2>>

\* tx conflicts with no held transaction.
FreeOfHeld(tx) == \A u \in Held : ~Conflict(tx, u)

\* C10 as stated: from every set state, for every pair sharing no spent
\* outpoint and no nullifier, both orders of insertion succeed and end in
\* the same state.
C10_AnyStateBothOrders ==
  \A a, b \in Txs :
    ~Conflict(a, b) =>
      LET ab == InsertBoth(a, b)
          ba == InsertBoth(b, a)
      IN /\ ab[1].ret = "Ok" /\ ab[2].ret = "Ok"
         /\ ba[1].ret = "Ok" /\ ba[2].ret = "Ok"
         /\ ab[2].set = ba[2].set

\* C10 amended: from every set state, for every pair sharing no spent
\* outpoint and no nullifier with each other or with a held transaction,
\* both orders of insertion succeed and end in the same state (held
\* transactions, indices, created outputs, size, cost) with the same gauges.
C10_DisjointInsertsCommute ==
  \A a, b \in Txs :
    (~Conflict(a, b) /\ FreeOfHeld(a) /\ FreeOfHeld(b)) =>
      LET ab == InsertBoth(a, b)
          ba == InsertBoth(b, a)
      IN /\ ab[1].ret = "Ok" /\ ab[2].ret = "Ok"
         /\ ba[1].ret = "Ok" /\ ba[2].ret = "Ok"
         /\ ab[2].set = ba[2].set
         /\ ab[2].gauges = ba[2].gauges

\* Two transactions were inserted one after the other, and a pair that
\* conflicts with nothing held is on offer.
C10_Witness ==
  /\ InsertReturned(last, "Ok")
  /\ Cardinality(Held) >= 2
  /\ \E a, b \in Txs :
       /\ a # b
       /\ ~Conflict(a, b) /\ FreeOfHeld(a) /\ FreeOfHeld(b)
       /\ Len(a.outputs) > 0 /\ Len(b.outputs) > 0

\* t reveals in one nullifier family a value that u reveals in another.
SharedAcrossFamilies(t, u) ==
  \/ t.sprout_nullifiers \cap (u.sapling_nullifiers \cup u.orchard_nullifiers) # {}
  \/ t.sapling_nullifiers \cap (u.sprout_nullifiers \cup u.orchard_nullifiers) # {}
  \/ t.orchard_nullifiers \cap (u.sprout_nullifiers \cup u.sapling_nullifiers) # {}

\* C11: the nullifier families are separate namespaces: an insert of a
\* transaction that shares a value with held transactions only across
\* families (none within a family, no outpoint) returns Ok.
C11_FamiliesAreSeparate ==
  [][(/\ last'.op = "insert"
      /\ \E u \in Held : SharedAcrossFamilies(TxOf(last'.arg), u)
      /\ \A u \in Held : ~Conflict(TxOf(last'.arg), u)) =>
       last'.ret = "Ok"]_vars

\* The inserted transaction reveals in Orchard a value that another held
\* transaction reveals in Sapling.
C11_Witness ==
  /\ InsertReturned(last, "Ok")
  /\ \E u \in Held :
       /\ u.id # last.arg
       /\ TxOf(last.arg).orchard_nullifiers \cap u.sapling_nullifiers # {}

\* C12: remove(id) on a held id deletes the entry, subtracts its size and
\* cost from the totals, erases its outpoints and nullifiers from the four
\* indices and its outputs from created_outputs, emits the gauges of the
\* resulting set and returns the removed transaction.
C12_RemoveEffect ==
  \A id \in DOMAIN set.transactions :
    LET tx == set.transactions[id]
        r == remove(set, gauges, id)
    IN /\ ~r.panicked
       /\ r.ret = tx
       /\ ~contains(r.set, id)
       /\ transaction_count(r.set) = transaction_count(set) - 1
       /\ total_serialized_size(r.set) = total_serialized_size(set) - tx.size
       /\ total_cost(r.set) = total_cost(set) - cost(tx)
       /\ r.set.spent_outpoints \cap tx.spent_outpoints = {}
       /\ r.set.sprout_nullifiers \cap tx.sprout_nullifiers = {}
       /\ r.set.sapling_nullifiers \cap tx.sapling_nullifiers = {}
       /\ r.set.orchard_nullifiers \cap tx.orchard_nullifiers = {}
       /\ DOMAIN r.set.created_outputs \cap OutPointsOf(tx) = {}
       /\ r.gauges.size_transactions = transaction_count(r.set)
       /\ r.gauges.size_bytes = total_serialized_size(r.set)
       /\ r.gauges.cost_bytes = total_cost(r.set)

\* evict_one has removed a transaction with an outpoint, a nullifier and an
\* output, and others are still held.
C12_Witness ==
  /\ last.op = "evict_one" /\ last.ret = "Some"
  /\ TxOf(last.id).orchard_nullifiers # {}
  /\ TxOf(last.id).spent_outpoints # {}
  /\ Len(TxOf(last.id).outputs) > 0
  /\ Cardinality(Held) >= 2

\* C13: remove_all_that(pred) removes exactly the held transactions that
\* pred accepts, keeps every other held transaction and returns the number
\* removed; a predicate accepting nothing removes nothing and returns 0, a
\* predicate accepting everything leaves the set empty.
C13_RemoveAllThatExact ==
  [][last'.op = "remove_all_that" =>
       LET before == DOMAIN set.transactions
           accepted == {k \in before : k \in last'.arg}
       IN /\ DOMAIN set'.transactions = before \ accepted
          /\ \A k \in before \ accepted : set'.transactions[k] = set.transactions[k]
          /\ last'.ret = Cardinality(accepted)
          /\ transaction_count(set') = transaction_count(set) - last'.ret
          /\ (accepted = {} => last'.ret = 0 /\ set' = set)
          /\ (accepted = before => transaction_count(set') = 0)]_vars

\* remove_all_that removed two transactions and kept another.
C13_Witness ==
  /\ last.op = "remove_all_that"
  /\ last.ret >= 2
  /\ transaction_count(set) >= 1

\* C14: on an empty set, new or emptied, evict_one returns None, raises no
\* error and changes neither the set nor the gauges, and total_cost and
\* total_serialized_size are 0.
C14_EvictOnEmpty ==
  [][(last'.op = "evict_one" /\ DOMAIN set.transactions = {}) =>
       /\ last'.ret = "None"
       /\ set' = set
       /\ gauges' = gauges
       /\ total_cost(set') = 0
       /\ total_serialized_size(set') = 0]_vars

\* evict_one returned None on a set that was emptied by removals.
C14_Witness ==
  /\ last.op = "evict_one" /\ last.ret = "None"
  /\ gauges # NoGauges
  /\ DOMAIN set.created_outputs = {}
  /\ gauges.size_transactions = 0

RECURSIVE Drains(_, _, _)
\* Whatever the sampler draws, repeated evict_one calls from (s, g) return
\* each transaction of `remaining` once, one held transaction per call, and
\* the call that follows the last of them returns None.
Drains(s, g, remaining) ==
  IF DOMAIN s.transactions = {}
    THEN /\ remaining = {}
         /\ evict_one(s, g, CHOOSE k \in TxIds : TRUE).ret = "None"
    ELSE /\ EvictionCandidates(s) # {}
         /\ \A key \in EvictionCandidates(s) :
              LET r == evict_one(s, g, key)
              IN /\ ~r.panicked
                 /\ r.ret = s.transactions[key]
                 /\ r.ret \in remaining
                 /\ transaction_count(r.set) = transaction_count(s) - 1
                 /\ Drains(r.set, r.gauges, remaining \ {r.ret})

\* C15: on a set holding n transactions each evict_one removes and returns
\* one transaction held at that time; n calls return every held transaction
\* exactly once and leave the set empty, and call n+1 returns None.
C15_EvictDrains == Drains(set, gauges, Held)

\* An eviction has happened and at least three transactions are left to
\* drain.
C15_Witness ==
  /\ last.op = "evict_one" /\ last.ret = "Some"
  /\ Cardinality(Held) >= 3

\* C17: after clear() the set holds no transactions, the four spend indices,
\* created_outputs and the dependency maps are empty, and both totals are 0.
C17_ClearEmptiesAll ==
  last.op = "clear" =>
    /\ DOMAIN set.transactions = {}
    /\ set.spent_outpoints = {}
    /\ set.sprout_nullifiers = {}
    /\ set.sapling_nullifiers = {}
    /\ set.orchard_nullifiers = {}
    /\ DOMAIN set.created_outputs = {}
    /\ DOMAIN set.dependencies = {}
    /\ DOMAIN set.dependants = {}
    /\ set.transactions_serialized_size = 0
    /\ set.total_cost = 0

\* C18: after clear(), and after the set is dropped, every mempool gauge
\* has been set to 0.
C18_GaugesZeroAfterClear ==
  last.op \in {"clear", "drop"} =>
    /\ DOMAIN gauges =
         {"unpaid_lt20", "unpaid_lt40", "unpaid_lt60", "unpaid_lt80", "unpaid_lt1",
          "paid", "size_transactions", "weighted_lt1", "weighted_eq1",
          "weighted_gt1", "weighted_gt2", "weighted_gt3", "size_bytes", "cost_bytes"}
    /\ \A name \in DOMAIN gauges : gauges[name] = 0

\* The set was dropped after it had held transactions with outputs.
C18_Witness ==
  /\ last.op = "drop"
  /\ DOMAIN set.created_outputs # {}
  /\ gauges.cost_bytes = 0

\* The size.transactions, size.bytes and cost.bytes gauges g carry the count
\* and the totals of s.
GaugesMatch(g, s) ==
  /\ g.size_transactions = transaction_count(s)
  /\ g.size_bytes = total_serialized_size(s)
  /\ g.cost_bytes = total_cost(s)

\* C19: every call that changes the set (a successful insert, removals by
\* remove_all_that or evict_one, clear) returns with the gauges emitted from
\* the state it returns with, so that the next call starts from gauges that
\* match the set; so does each single removal inside remove_all_that.
C19_EmissionFollowsMutation ==
  [][/\ set' # set => GaugesMatch(gauges', set')
     /\ gauges # NoGauges => GaugesMatch(gauges, set)
     /\ \A k \in DOMAIN set.transactions :
          LET r == remove(set, gauges, k) IN GaugesMatch(r.gauges, r.set)]_vars

\* remove_all_that removed two transactions and the gauges carry the
\* count and totals of the two that are left.
C19_Witness ==
  /\ last.op = "remove_all_that" /\ last.ret >= 2
  /\ transaction_count(set) = 2
  /\ gauges.size_transactions = 2
  /\ gauges.cost_bytes = total_cost(set)

\* The events the worker has taken from the channel and not yet applied.
InHand == IF worker_pc \in {"lock", "update"} THEN <<event>> ELSE << >>

\* C20: the worker applies the events to the address book exactly once and
\* in the order in which they entered the channel, whatever the
\* interleaving of the senders: the applied events, the event in the
\* worker's hand and the queued events are, in this order, the events that
\* entered; when the worker exits every event that entered has been applied.
C20_AppliedInArrivalOrder ==
  /\ address_book \o InHand \o channel = entered
  /\ worker_pc = "done" => address_book = entered

\* The worker has exited after applying three events of two senders that
\* sent in turn.
C20_Witness ==
  /\ worker_pc = "done"
  /\ Len(address_book) >= 3
  /\ address_book[1].sender # address_book[2].sender
  /\ address_book[2].sender # address_book[3].sender

\* Some sender can still send.
SomeSenderAlive == \E s \in SenderIds : senders[s] = "alive"

\* C21: the worker's handle never completes with Ok; it completes with
\* Err(AllSendersClosed) only, and only when every sender is dropped and
\* the channel is drained: while a sender is alive or an event is queued
\* the worker has not returned.
C21_ErrOnlyWhenClosedAndDrained ==
  /\ handle \in {"running", "Err(AllSendersClosed)"}
  /\ handle = "running" <=> worker_pc # "done"
  /\ (SomeSenderAlive \/ channel # << >>) => handle = "running"
  /\ handle # "running" => InHand = << >>

\* The worker has returned Err(AllSendersClosed) after the sender that spawn
\* returned and its clone were both dropped.
C21_Witness ==
  /\ handle = "Err(AllSendersClosed)"
  /\ \A s \in SenderIds : senders[s] = "dropped"
  /\ address_book # << >>

\* C22: once all senders are dropped, the worker eventually applies the
\* events still queued and then terminates.
C22_ClosedLeadsToExit ==
  (~SomeSenderAlive) ~> (worker_pc = "done" /\ address_book = entered)

\* All senders are dropped while events are still queued, the worker has
\* one more in hand and another holder has the mutex.
C22_Witness ==
  /\ ~SomeSenderAlive
  /\ channel # << >>
  /\ worker_pc = "lock"
  /\ mutex = "reader"

\* C23: the channel never holds more than ChannelCapacity events; while it
\* holds ChannelCapacity events nothing enters it, and the only change to
\* it is the worker taking the oldest event; no event that entered is lost.
C23_BoundedWithBackpressure ==
  [][/\ Len(channel) <= ChannelCapacity
     /\ Len(channel') <= ChannelCapacity
     /\ Len(channel) = ChannelCapacity =>
          /\ entered' = entered
          /\ channel' # channel => channel' = Tail(channel) /\ event' = Head(channel)
     /\ address_book' \o (IF worker_pc' \in {"lock", "update"} THEN <<event'>> ELSE << >>)
          \o channel' = entered']_vars

\* The channel is full again after the worker took an event from the full
\* channel, and a sender has more to send.
C23_Witness ==
  /\ Len(channel) = ChannelCapacity
  /\ Len(entered) > ChannelCapacity
  /\ SomeSenderAlive

\* The last call was is_valid.
CalledIsValid == call.op = "is_valid"

C25_CoinbaseIsTxCoinbase ==
  /\ CalledIsValid
  /\ call.input_index < Len(verifier.transaction.inputs)
  /\ verifier.transaction.inputs[call.input_index + 1].kind = "Coinbase"
  => call.ret = "TxCoinbase" /\ ~call.engine_ran

\* C26: is_valid returns Ok, Err(TxIndex), Err(TxCoinbase) or
\* Err(ScriptInvalid) and never panics, for every transaction, every
\* sequence of previous outputs and every input_index.
C26_NeverPanics ==
  CalledIsValid =>
    /\ ~call.panicked
    /\ call.ret \in {"Ok", "TxIndex", "TxCoinbase", "ScriptInvalid"}

\* Two calls of is_valid with the same arguments.
SameArguments(c, d) ==
  /\ c.op = "is_valid"
  /\ d.op = "is_valid"
  /\ c.branch_id = d.branch_id
  /\ c.input_index = d.input_index

SigopSum(transaction) ==
  LET ins == {i \in DOMAIN transaction.inputs : transaction.inputs[i].kind = "PrevOut"}
      in_count == [i \in ins |-> transaction.inputs[i].unlock_script.sigops]
      out_count == [i \in DOMAIN transaction.outputs |->
                      transaction.outputs[i].lock_script.sigops]
  IN Sum(in_count, ins) + Sum(out_count, DOMAIN transaction.outputs)

\* C28: legacy_sigop_count returns the sum of the counts of the unlock
\* scripts of the non-coinbase inputs and of the lock scripts of the
\* outputs, and the same number for every sequence of previous outputs
\* given to the constructor.
C28_SigopCountIsSum ==
  call.op = "legacy_sigop_count" =>
    /\ call.ret = SigopSum(verifier.transaction)
    /\ \A p \in PrevOutputSeqs(MaxPrevOutputs) :
         legacy_sigop_count(new(verifier.transaction, p)) = call.ret

\* legacy_sigop_count was called on a verifier with previous outputs over
\* a transaction with a coinbase input and a counted input.
C28_Witness ==
  /\ call.op = "legacy_sigop_count"
  /\ call.ret > 0
  /\ verifier.all_previous_outputs # << >>
  /\ \E i \in DOMAIN verifier.transaction.inputs :
       verifier.transaction.inputs[i].kind = "Coinbase"
  /\ \E i \in DOMAIN verifier.transaction.inputs :
       verifier.transaction.inputs[i].kind = "PrevOut"

\* The map m has an edge from k to d.
HasEdge(m, k, d) == k \in DOMAIN m /\ d \in m[k]

\* C29: when insert(B) succeeds and B spends an outpoint that is in
\* created_outputs because the held transaction A created it, the set
\* afterwards has B -> A in dependencies and A -> B in dependants.
C29_InsertAddsEdges ==
  [][InsertReturned(last', "Ok") /\ set' # set =>
       \A A \in Held :
         (\E o \in TxOf(last'.arg).spent_outpoints :
            o \in DOMAIN set.created_outputs /\ o \in OutPointsOf(A)) =>
           /\ HasEdge(set'.dependencies, last'.arg, A.id)
           /\ HasEdge(set'.dependants, A.id, last'.arg)]_vars

\* C30: a removal by remove_all_that or evict_one leaves no held
\* transaction that spends an output created by a transaction the call
\* removed, and the gauges agree with the set after the call.
C30_RemoveCascades ==
  [][Removed(last') /\ set' # set =>
       /\ \A k \in DOMAIN set.transactions \ DOMAIN set'.transactions :
            \A j \in DOMAIN set'.transactions :
              set'.transactions[j].spent_outpoints
                \cap OutPointsOf(set.transactions[k]) = {}
       /\ GaugesMatch(gauges', set')]_vars

\* C31: conflicts are decided against the current contents only: after a
\* removal (by remove_all_that or evict_one) or a clear, every transaction
\* whose insert was rejected before the call and that conflicts with no
\* transaction still held is accepted by insert.
C31_ConflictsAgainstCurrentContents ==
  [][(Removed(last') \/ last'.op = "clear") =>
       \A B \in Txs :
         (/\ insert(set, gauges, B).ret = "SpendConflict"
          /\ \A k \in DOMAIN set'.transactions : ~Conflict(B, set'.transactions[k])) =>
           insert(set', gauges', B).ret = "Ok"]_vars

\* evict_one has removed a transaction that shared a nullifier with a
\* transaction that is not held; others are still held and the transaction
\* that is not held conflicts with none of them.
C31_Witness ==
  /\ last.op = "evict_one" /\ last.ret = "Some"
  /\ Held # {}
  /\ \E B \in Txs :
       /\ B.id # last.id
       /\ B.sapling_nullifiers \cap TxOf(last.id).sapling_nullifiers # {}
       /\ \A u \in Held : ~Conflict(B, u)

\* C32: every held transaction has a positive eviction weight, so on a
\* non-empty set the weighted distribution can be built and evict_one
\* returns Some, the transaction it removed, and does not panic.
C32_EvictOnNonEmptyReturnsSome ==
  [][/\ \A t \in Held : eviction_weight(t) > 0
     /\ (last'.op = "evict_one" /\ DOMAIN set.transactions # {}) =>
          /\ last'.ret = "Some"
          /\ last'.id \in DOMAIN set.transactions
          /\ last'.id \notin DOMAIN set'.transactions]_vars

\* evict_one returned Some on a set in which no transaction had a low fee
\* penalty.
C32_Witness ==
  /\ last.op = "evict_one" /\ last.ret = "Some"
  /\ TxOf(last.id).miner_fee >= CONVENTIONAL_FEE
  /\ Held # {}
  /\ \A t \in Held : t.miner_fee >= CONVENTIONAL_FEE

\* C33: an owner that calls evict_one while total_cost exceeds
\* mempool_cost_limit ends with total_cost <= mempool_cost_limit: each
\* evict_one on a non-empty set lowers transaction_count by 1 and total_cost
\* by the positive cost of the victim, and total_cost is 0 when the set is
\* empty.
C33_EnforcementTerminates ==
  /\ [][(last'.op = "evict_one" /\ DOMAIN set.transactions # {}) =>
          /\ last'.id \in DOMAIN set.transactions
          /\ transaction_count(set') = transaction_count(set) - 1
          /\ cost(set.transactions[last'.id]) > 0
          /\ total_cost(set') = total_cost(set) - cost(set.transactions[last'.id])]_vars
  /\ [](DOMAIN set.transactions = {} => total_cost(set) = 0)
  /\ (total_cost(set) > mempool_cost_limit) ~> (total_cost(set) <= mempool_cost_limit)

\* An eviction has brought a set that was over the cost limit back within
\* it, and transactions are still held.
C33_Witness ==
  /\ last.op = "evict_one" /\ last.ret = "Some"
  /\ total_cost(set) <= mempool_cost_limit
  /\ total_cost(set) + cost(TxOf(last.id)) > mempool_cost_limit
  /\ Held # {}

\* C34: at every emission the paid gauge is the sum over the held
\* transactions of conventional_actions - unpaid_actions, no term of which
\* is negative, and paid plus the five unpaid buckets is the number of
\* conventional actions of the held transactions.
C34_PaidPlusUnpaidIsConventional ==
  gauges # NoGauges =>
    LET ids == DOMAIN set.transactions
        conventional == [k \in ids |-> set.transactions[k].conventional_actions]
        unpaid == [k \in ids |-> set.transactions[k].unpaid_actions]
    IN /\ \A k \in ids : conventional[k] >= unpaid[k]
       /\ gauges.paid = Sum(conventional, ids) - Sum(unpaid, ids)
       /\ gauges.paid + gauges.unpaid_lt20 + gauges.unpaid_lt40 + gauges.unpaid_lt60
            + gauges.unpaid_lt80 + gauges.unpaid_lt1 = Sum(conventional, ids)

\* The gauges after a removal count paid actions and unpaid actions in two
\* buckets.
C34_Witness ==
  /\ Removed(last)
  /\ gauges.paid > 0
  /\ gauges.unpaid_lt20 > 0
  /\ gauges.unpaid_lt60 > 0

\* C35: the worker holds the address book mutex only while it applies one
\* change: it does not hold it while it waits for an event, while it waits
\* for the mutex or after it has exited, and the step it takes while
\* holding it applies the one event it received and releases the mutex.
C35_MutexHeldForOneChange ==
  [][/\ mutex = "worker" <=> worker_pc = "update"
     /\ mutex = "worker" /\ <<worker_pc, event, address_book>>' # <<worker_pc, event, address_book>> =>
          /\ mutex' = "free"
          /\ address_book' = Append(address_book, event)
          /\ channel' = channel
          /\ worker_pc' = "recv"]_vars

\* The worker holds the mutex for its second change while another event is
\* queued.
C35_Witness ==
  /\ mutex = "worker"
  /\ Len(address_book) >= 1
  /\ channel # << >>

\* C36: the transaction and all_previous_outputs of every constructed
\* verifier match: all_previous_outputs has one entry for each input of the
\* transaction.
C36_PreviousOutputsMatchInputs ==
  verifier.constructed =>
    Len(verifier.all_previous_outputs) = Len(verifier.transaction.inputs)

\* C37: removing one held transaction leaves every other held transaction
\* in the map with its entries in the four indices and in created_outputs;
\* nothing leaves an index or created_outputs but what belongs to the
\* removed transaction.
C37_RemoveFrame ==
  \A id \in DOMAIN set.transactions :
    LET tx == set.transactions[id]
        r == remove(set, gauges, id)
    IN /\ DOMAIN r.set.transactions = DOMAIN set.transactions \ {id}
       /\ \A j \in DOMAIN r.set.transactions :
            LET t == set.transactions[j]
            IN /\ r.set.transactions[j] = t
               /\ t.spent_outpoints \subseteq r.set.spent_outpoints
               /\ t.sprout_nullifiers \subseteq r.set.sprout_nullifiers
               /\ t.sapling_nullifiers \subseteq r.set.sapling_nullifiers
               /\ t.orchard_nullifiers \subseteq r.set.orchard_nullifiers
               /\ \A o \in OutPointsOf(t) \cap DOMAIN set.created_outputs :
                    /\ o \in DOMAIN r.set.created_outputs
                    /\ r.set.created_outputs[o] = set.created_outputs[o]
       /\ set.spent_outpoints \ r.set.spent_outpoints \subseteq tx.spent_outpoints
       /\ set.sprout_nullifiers \ r.set.sprout_nullifiers \subseteq tx.sprout_nullifiers
       /\ set.sapling_nullifiers \ r.set.sapling_nullifiers \subseteq tx.sapling_nullifiers
       /\ set.orchard_nullifiers \ r.set.orchard_nullifiers \subseteq tx.orchard_nullifiers
       /\ DOMAIN set.created_outputs \ DOMAIN r.set.created_outputs \subseteq OutPointsOf(tx)

\* After a removal the set holds a transaction and another that spends one
\* of its outputs, with entries in indices and in created_outputs.
C37_Witness ==
  /\ Removed(last)
  /\ \E t \in Held, u \in Held :
       /\ u.spent_outpoints \cap OutPointsOf(t) # {}
       /\ OutPointsOf(u) # {}
  /\ set.orchard_nullifiers # {}

\* C38: every outpoint spent and every nullifier revealed by a held
\* transaction is in the index of its kind, so insert rejects every
\* transaction that conflicts with a held one.
C38_IndicesComplete ==
  /\ \A t \in Held :
       /\ t.spent_outpoints \subseteq set.spent_outpoints
       /\ t.sprout_nullifiers \subseteq set.sprout_nullifiers
       /\ t.sapling_nullifiers \subseteq set.sapling_nullifiers
       /\ t.orchard_nullifiers \subseteq set.orchard_nullifiers
  /\ \A B \in Txs :
       (\E u \in Held : Conflict(B, u)) => insert(set, gauges, B).ret = "SpendConflict"

\* An insert was rejected by a set whose four indices all have entries.
C38_Witness ==
  /\ InsertReturned(last, "SpendConflict")
  /\ set.spent_outpoints # {}
  /\ set.sprout_nullifiers # {}
  /\ set.sapling_nullifiers # {}
  /\ set.orchard_nullifiers # {}

\* C39: the private remove is only called with a held id: evict_one draws
\* its key from the current map and does not panic, remove_all_that
\* removes the ids it collected before any removal without a panic, and no
\* removal takes more from the size or cost counter than it holds.
C39_RemoveOnlyHeldIds ==
  [][/\ last'.op = "evict_one" =>
          /\ last'.ret # "panic"
          /\ DOMAIN set.transactions # {} => last'.id \in DOMAIN set.transactions
     /\ \A predicate \in SUBSET Held :
          LET r == remove_all_that(set, gauges, predicate)
          IN /\ ~r.panicked
             /\ r.ret = Cardinality(predicate)
     /\ \A k \in DOMAIN set.transactions :
          /\ set.transactions_serialized_size >= set.transactions[k].size
          /\ set.total_cost >= cost(set.transactions[k])]_vars

\* remove_all_that has removed three or more transactions and left the
\* set empty with both counters at 0.
C39_Witness ==
  /\ last.op = "remove_all_that"
  /\ last.ret >= 3
  /\ DOMAIN set.transactions = {}
  /\ set.transactions_serialized_size = 0
  /\ set.total_cost = 0

====
